---- MODULE Spec2Model ----
(***************************************************************************)
(* With-items iteration tracking (mistral/workflow/with_items.py) and the  *)
(* executor RPC endpoint (mistral/executors/executor_server.py).           *)
(*                                                                         *)
(* Python objects live in a heap (a sequence of objects, an address is an  *)
(* index), so that copy.copy, list.append and dict item assignment keep    *)
(* the aliasing they have in the code.  What the task record persists is   *)
(* a JSON value (no aliasing); a worker that handles a result loads it     *)
(* into fresh objects, applies get_output and stores the returned value.   *)
(***************************************************************************)
EXTENDS Integers, Sequences, FiniteSets, TLC

\* ------------------------------------------------------------------ bounds
\* Longest with-items source collection.
MaxLen == 2
\* Deliveries of one task's requests, redeliveries included.
MaxDeliveries == MaxLen + 1

\* The start and stop calls made on one ExecutorServer.
MaxCalls == 3

\* The RPC requests one ExecutorServer receives.
MaxRpc == 2

\* ------------------------------------------------------------ Python values
None == "None"
PyTrue == "True"
PyFalse == "False"

\* Truth value of a primitive, as `not x` / `x or y` test it: None, 0, False,
\* '' and an empty collection are false.
Falsy(p) == p \in {None, "0", PyFalse, "", "[]"}

\* x or y
Or(x, y) == IF Falsy(x) THEN y ELSE x

\* A value held in a dict slot: a primitive (ref = 0) or a reference.
Prim(p) == [ref |-> 0, p |-> p]
Ref(a) == [ref |-> a, p |-> ""]

EmptyMap == [k \in {} |-> Prim(None)]

NewDict(m) == [kind |-> "dict", items |-> <<>>, map |-> m]
NewList(s) == [kind |-> "list", items |-> s, map |-> EmptyMap]

\* d[k] = v on a mapping
MapSet(m, k, v) == [x \in (DOMAIN m) \cup {k} |-> IF x = k THEN v ELSE m[x]]

\* Object creation: the new object gets the next address.
Alloc(h, obj) == [h |-> Append(h, obj), a |-> Len(h) + 1]

\* d[k] = v on the dict object at address a
DictSetItem(h, a, k, v) == [h EXCEPT ![a].map = MapSet(h[a].map, k, v)]

\* ------------------------------------------------- persisted (JSON) values
JPrim(p) == [kind |-> "prim", p |-> p, items |-> <<>>, map |-> EmptyMap]
JList(s) == [kind |-> "list", p |-> "", items |-> s, map |-> EmptyMap]
JDict(m) == [kind |-> "dict", p |-> "", items |-> <<>>, map |-> m]
JNone == JPrim(None)
JEmptyDict == JDict(EmptyMap)

RECURSIVE Deep(_, _)
\* The value reachable from v in heap h, as the record store would persist it.
Deep(h, v) ==
    IF v.ref = 0 THEN JPrim(v.p)
    ELSE IF h[v.ref].kind = "list" THEN JList(h[v.ref].items)
    ELSE JDict([k \in DOMAIN h[v.ref].map |-> Deep(h, h[v.ref].map[k])])

RECURSIVE Materialize(_, _)
RECURSIVE MaterializeDict(_, _, _, _)
\* Loading a persisted value builds fresh objects: [h |-> heap, v |-> value].
Materialize(h, j) ==
    IF j.kind = "prim" THEN [h |-> h, v |-> Prim(j.p)]
    ELSE IF j.kind = "list"
         THEN LET n == Alloc(h, NewList(j.items)) IN [h |-> n.h, v |-> Ref(n.a)]
         ELSE MaterializeDict(h, j.map, DOMAIN j.map, EmptyMap)

MaterializeDict(h, jm, ks, acc) ==
    IF ks = {}
    THEN LET n == Alloc(h, NewDict(acc)) IN [h |-> n.h, v |-> Ref(n.a)]
    ELSE LET k == CHOOSE x \in ks : TRUE
             r == Materialize(h, jm[k])
         IN MaterializeDict(r.h, jm, ks \ {k}, MapSet(acc, k, r.v))

\* --------------------------------------------- mistral/workflow/with_items.py
\* The task's name (task_db.name); the model follows one with-items task.
t_name == "t1"

\* Faulty variant of ListAppend: the list is replaced by the new entry alone.
ListAppendReplaces(h, a, v) == [h EXCEPT ![a].items = <<v>>]

\* Faulty variant of ListAppend: the new entry is put in front.
ListAppendPrepends(h, a, v) == [h EXCEPT ![a].items = <<v>> \o @]

\* list.append(v) on the list object at address a
ListAppend(h, a, v) == [h EXCEPT ![a].items = Append(@, v)]

IsList(h, v) == v.ref # 0 /\ h[v.ref].kind = "list"
IsDict(h, v) == v.ref # 0 /\ h[v.ref].kind = "dict"

\* d.get(k) on a mapping of primitives
MapGet(m, k) == IF k \in DOMAIN m THEN m[k] ELSE None

EmptyCtx == [k \in {} |-> None]
NoData == [isNone |-> TRUE, fields |-> EmptyCtx]
Data(v) == [isNone |-> FALSE, fields |-> [k \in {"output"} |-> v]]

\* raw_result.data or {}
DataOrEmpty(data) ==
    IF data.isNone \/ DOMAIN data.fields = {} THEN EmptyCtx ELSE data.fields

\* expr.evaluate_recursively(publish, context): each publish key gets the value
\* its expression reads from the context, None when the context lacks it.
evaluate_recursively(pub, ctx) ==
    [k \in DOMAIN pub |-> IF pub[k] \in DOMAIN ctx THEN ctx[pub[k]] ELSE None]

\* _get_output_key(task_spec): the publish clause's first key, None without one.
get_output_key(pub) ==
    IF DOMAIN pub # {} THEN CHOOSE k \in DOMAIN pub : TRUE ELSE None

\* Faulty variant of PublishedEntry: the error datum is dropped.
PublishedEntryNoError(output, out_key, e_data) == MapGet(output, out_key)

\* output.get(out_key) or e_data
PublishedEntry(output, out_key, e_data) == Or(MapGet(output, out_key), e_data)

\* Faulty variant of PlaceholderEntry: always the None marker.
PlaceholderEntryNone(e_data) == None

\* None or e_data
PlaceholderEntry(e_data) == Or(None, e_data)

\* not task_db.output
NotOutput(h, out) == out.ref = 0 \/ DOMAIN h[out.ref].map = {}

\* The append to the primary sequence under out_key of the dict at c.
AppendPublished(h, c, out_key, entry) ==
    IF out_key \in DOMAIN h[c].map
    THEN IF IsList(h, h[c].map[out_key])
         THEN [h |-> ListAppend(h, h[c].map[out_key].ref, entry), exc |-> "none"]
         ELSE [h |-> h, exc |-> "AttributeError"]
    ELSE LET n == Alloc(h, NewList(<<entry>>))
         IN [h |-> DictSetItem(n.h, c, out_key, Ref(n.a)), exc |-> "none"]

\* Faulty variant of MirrorPublished: the mirror is built only when the output
\* has no 'task' entry yet.
MirrorPublishedOnce(h, c, out_key) ==
    IF "task" \in DOMAIN h[c].map THEN h
    ELSE LET inner == Alloc(h, NewDict(MapSet(EmptyMap, out_key, h[c].map[out_key])))
             outer == Alloc(inner.h, NewDict(MapSet(EmptyMap, t_name, Ref(inner.a))))
         IN DictSetItem(outer.h, c, "task", Ref(outer.a))

\* Faulty variant of MirrorPublished: the mirror is keyed by out_key directly,
\* without the level of the task name.
MirrorPublishedFlat(h, c, out_key) ==
    LET inner == Alloc(h, NewDict(MapSet(EmptyMap, out_key, h[c].map[out_key])))
    IN DictSetItem(inner.h, c, "task", Ref(inner.a))

\* task_output['task'] = {t_name: {out_key: task_output[out_key]}}
MirrorPublished(h, c, out_key) ==
    LET inner == Alloc(h, NewDict(MapSet(EmptyMap, out_key, h[c].map[out_key])))
        outer == Alloc(inner.h, NewDict(MapSet(EmptyMap, t_name, Ref(inner.a))))
    IN DictSetItem(outer.h, c, "task", Ref(outer.a))

\* The branch without a publish clause, on the dict at c.
AppendPlaceholder(h, c, entry) ==
    IF "task" \notin DOMAIN h[c].map
    THEN LET l == Alloc(h, NewList(<<entry>>))
             d == Alloc(l.h, NewDict(MapSet(EmptyMap, t_name, Ref(l.a))))
         IN [h |-> DictSetItem(d.h, c, "task", Ref(d.a)), exc |-> "none"]
    ELSE LET td == h[c].map["task"]
         IN IF ~IsDict(h, td) THEN [h |-> h, exc |-> "TypeError"]
            ELSE IF t_name \notin DOMAIN h[td.ref].map
                 THEN [h |-> h, exc |-> "KeyError"]
            ELSE IF ~IsList(h, h[td.ref].map[t_name])
                 THEN [h |-> h, exc |-> "AttributeError"]
            ELSE [h |-> ListAppend(h, h[td.ref].map[t_name].ref, entry),
                  exc |-> "none"]

\* get_output(task_db, task_spec, raw_result) on heap h0 with task_db.output = out0.
\* Gives the heap after the call, task_db.output after the call, the returned
\* reference and the exception raised ("none": returned normally).
get_output(h0, out0, pub, raw) ==
    LET e_data == raw.error
        output == evaluate_recursively(pub, DataOrEmpty(raw.data))
        fresh == Alloc(h0, NewDict(EmptyMap))
        h1 == IF NotOutput(h0, out0) THEN fresh.h ELSE h0
        out1 == IF NotOutput(h0, out0) THEN Ref(fresh.a) ELSE out0
        copy == Alloc(h1, NewDict(h1[out1.ref].map))
        c == copy.a
        out_key == get_output_key(pub)
        app == IF out_key # None
               THEN AppendPublished(copy.h, c, out_key,
                                    PublishedEntry(output, out_key, e_data))
               ELSE AppendPlaceholder(copy.h, c, PlaceholderEntry(e_data))
        h2 == IF out_key # None /\ app.exc = "none"
              THEN MirrorPublished(app.h, c, out_key)
              ELSE app.h
    IN [h |-> h2, out |-> out1, ret |-> Ref(c), exc |-> app.exc]

\* The order in which a mapping of with-items variables is iterated.
VarOrder == <<"itemX", "itemY">>
Keys(m) == SelectSeq(VarOrder, LAMBDA k : k \in DOMAIN m)

\* A resolved with-items value: a list, or something that is not a list.
ListValue(s) == [islist |-> TRUE, items |-> s]
Scalar == [islist |-> FALSE, items |-> <<>>]

\* validate_input(with_items_input): the exception raised, "none" when it returns.
validate_input(m) ==
    LET values == [i \in 1..Len(Keys(m)) |-> m[Keys(m)[i]]]
    IN IF \E i \in DOMAIN values : ~values[i].islist THEN "InputException"
       ELSE IF Len(values) = 0 THEN "IndexError"
       ELSE IF \E i \in DOMAIN values :
                    Len(values[i].items) # Len(values[1].items)
            THEN "InputException"
       ELSE "none"

RECURSIVE CalcItemsAppendsAlways(_, _, _, _)
\* Faulty variant of CalcItems: every item opens a new binding.
CalcItemsAppendsAlways(key, value, index, coll) ==
    IF index > Len(value) THEN coll
    ELSE CalcItemsAppendsAlways(key, value, index + 1,
            Append(coll, [k \in {key} |-> value[index]]))

RECURSIVE CalcItems(_, _, _, _)
\* for index, item in enumerate(value): ... from index on (1-based here)
CalcItems(key, value, index, coll) ==
    IF index > Len(value) THEN coll
    ELSE CalcItems(key, value, index + 1,
            IF index - 1 >= Len(coll)
            THEN Append(coll, [k \in {key} |-> value[index]])
            ELSE [coll EXCEPT ![index] = MapSet(@, key, value[index])])

RECURSIVE CalcKeys(_, _, _)
\* for key, value in with_items_input.items(): ...
CalcKeys(m, keys, coll) ==
    IF keys = <<>> THEN coll
    ELSE CalcKeys(m, Tail(keys), CalcItems(Head(keys), m[Head(keys)].items, 1, coll))

\* Faulty variant of calc_input: the bindings are built whatever validate_input
\* says.
calc_input_unvalidated(m) ==
    [exc |-> validate_input(m), value |-> CalcKeys(m, Keys(m), <<>>)]

\* calc_input(with_items_input): [exc, value]
calc_input(m) ==
    IF validate_input(m) # "none"
    THEN [exc |-> validate_input(m), value |-> <<>>]
    ELSE [exc |-> "none", value |-> CalcKeys(m, Keys(m), <<>>)]

\* Faulty variant of IndexBelowCount: the comparison is <=.
IndexBelowOrAtCount(index, iterations_count) ==
    IF index <= iterations_count THEN PyTrue ELSE PyFalse

\* True if index < iterations_count else False
IndexBelowCount(index, iterations_count) ==
    IF index < iterations_count THEN PyTrue ELSE PyFalse

\* is_iteration_incomplete(task_db, task_spec) on the persisted output:
\* [exc, value], value a Python bool.
is_iteration_incomplete(input, output, pub) ==
    LET iterations_count == Len(input[Keys(input)[1]].items)
        output_key == get_output_key(pub)
        Raise(e) == [exc |-> e, value |-> None]
        Return(index) == [exc |-> "none",
                          value |-> IndexBelowCount(index, iterations_count)]
    IN IF Keys(input) = <<>> THEN Raise("IndexError")
       ELSE IF output.kind # "dict" THEN Raise("TypeError")
       ELSE IF "task" \notin DOMAIN output.map THEN Raise("KeyError")
       ELSE IF output.map["task"].kind # "dict" THEN Raise("TypeError")
       ELSE IF t_name \notin DOMAIN output.map["task"].map THEN Raise("KeyError")
       ELSE LET x == output.map["task"].map[t_name]
            IN IF output_key # None
               THEN IF x.kind # "dict" THEN Raise("TypeError")
                    ELSE IF output_key \notin DOMAIN x.map THEN Raise("KeyError")
                    ELSE IF x.map[output_key].kind # "list" THEN Raise("TypeError")
                    ELSE Return(Len(x.map[output_key].items))
               ELSE IF x.kind # "list" THEN Raise("TypeError")
                    ELSE Return(Len(x.items))

\* ------------------------------------------------------------------- state
VARIABLES
    with_items_input,          \* task_db.input: variable -> resolved collection
    publish,                   \* task_spec.get_publish(): key -> field it reads
    phase,                     \* "created", "running" or "failed"
    input_exc,                 \* what calc_input raised ("none": nothing)
    action_input_collection,   \* what calc_input returned
    dispatched,                \* how many iterations were sent, in index order
    requests,                  \* RPC requests in flight to the executor server
    redeliveries,              \* redeliveries made so far
    results,                   \* results in flight back to the engine
    stored,                    \* task_db.output as persisted
    lock,                      \* the worker in the task's critical section
    wk,                        \* per worker: the result in hand and its objects
    log,                       \* the results applied, in the order stored
    incomplete,                \* the last answer of is_iteration_incomplete
    setup_profiler,            \* ExecutorServer._setup_profiler
    rpc_servers,               \* the RPC server objects created so far
    rpc_server,                \* ExecutorServer._rpc_server: None or one of them
    start_pc,                  \* the next step of the start() in progress (0: none)
    service,                   \* what the service base class and the log saw
    calls,                     \* start and stop calls made so far
    stop_exc,                  \* what the last stop() raised ("none": nothing)
    received,                  \* RPC requests received by run_action
    last_request,              \* the last of them
    executor_calls,            \* calls made to executor.run_action
    last_call,                 \* the arguments and outcome of the last of them
    last_reply                 \* what run_action gave back for the last request

taskVars == <<with_items_input, publish, phase, input_exc, action_input_collection,
              dispatched, requests, redeliveries, results, stored, lock, wk,
              log, incomplete>>

serverVars == <<setup_profiler, rpc_servers, rpc_server, start_pc, service, calls,
                stop_exc, received, last_request, executor_calls, last_call,
                last_reply>>

vars == <<taskVars, serverVars>>

Workers == {"w1", "w2"}
NoWorker == "none"

\* The items a variable's collection is drawn from.
ItemsOf(v) == IF v = "itemX" THEN <<"1", "2", "3", "4">> ELSE <<"a", "b", "c", "d">>

ValuesOf(v) == {Scalar} \cup {ListValue(SubSeq(ItemsOf(v), 1, n)) : n \in 0..MaxLen}

\* Every mapping of zero, one or two variables to a list or a non-list.
Inputs ==
    UNION {{m \in [vs -> {Scalar} \cup UNION {ValuesOf(v) : v \in vs}] :
                \A v \in vs : m[v] \in ValuesOf(v)} :
           vs \in {{}, {"itemX"}, {"itemX", "itemY"}}}

\* No publish clause, or one that publishes the result's `output` under `result`
\* (a key other than 'task', the name the output structure reserves).
Publishes == {EmptyCtx, [k \in {"result"} |-> "output"]}

\* What the action computes from an iteration's item; a falsy value is among
\* them.
DataOf(params) == IF params["itemX"] \in {"1", "3"} THEN "0" ELSE "a"
ErrorValues == {"e1"}

\* What an action execution can return: the data computed from its input, or an
\* error datum.
Results(params) ==
    {[data |-> Data(DataOf(params)), error |-> None]}
    \cup {[data |-> NoData, error |-> e] : e \in ErrorValues}

IdleWorker == [pc |-> "idle", raw |-> [data |-> NoData, error |-> None],
               exc |-> "none",
               heap0 |-> <<>>, out0 |-> Prim(None),
               heap |-> <<>>, out |-> Prim(None), ret |-> Prim(None)]

Unset == [exc |-> "none", value |-> "unset"]

\* self._rpc_server = None
NoRpcServer == 0

NothingYet == <<>>

\* ExecutorServer.__init__(executor, setup_profiler): no RPC server yet, nothing
\* started, stopped, received or called.
ExecutorServer_init(sp) ==
    /\ setup_profiler = sp
    /\ rpc_servers = <<>>
    /\ rpc_server = NoRpcServer
    /\ start_pc = 0
    /\ service = [starts |-> 0, stops |-> <<>>, profiler |-> 0, notified |-> 0]
    /\ calls = 0
    /\ stop_exc = "none"
    /\ received = 0
    /\ last_request = NothingYet
    /\ executor_calls = 0
    /\ last_call = NothingYet
    /\ last_reply = NothingYet

Init ==
    /\ with_items_input \in Inputs
    /\ publish \in Publishes
    /\ phase = "created"
    /\ input_exc = "none"
    /\ action_input_collection = <<>>
    /\ dispatched = 0
    /\ requests = {}
    /\ redeliveries = 0
    /\ results = {}
    /\ stored \in {JNone, JEmptyDict}
    /\ lock = NoWorker
    /\ wk = [w \in Workers |-> IdleWorker]
    /\ log = <<>>
    /\ incomplete = Unset
    /\ ExecutorServer_init(TRUE)

\* ---------------------------------------------------------------- actions
\* The engine expands the task's collections: calc_input, which validates first.
CalcInput ==
    /\ phase = "created"
    /\ input_exc' = calc_input(with_items_input).exc
    /\ action_input_collection' = calc_input(with_items_input).value
    /\ phase' = IF calc_input(with_items_input).exc = "none" THEN "running" ELSE "failed"
    /\ UNCHANGED <<with_items_input, publish, dispatched, requests,
                   redeliveries, results, stored, lock, wk, log, incomplete>>
    /\ UNCHANGED serverVars

\* The engine sends the next iteration across the action-dispatch boundary.
Dispatch ==
    /\ phase = "running"
    /\ dispatched < Len(action_input_collection)
    /\ dispatched' = dispatched + 1
    /\ requests' = requests \cup
           {[action_ex_id |-> dispatched + 1, n |-> 0,
             params |-> action_input_collection[dispatched + 1]]}
    /\ UNCHANGED <<with_items_input, publish, phase, input_exc,
                   action_input_collection, redeliveries, results, stored,
                   lock, wk, log, incomplete>>
    /\ UNCHANGED serverVars

\* The at-least-once messaging layer delivers again a request the executor
\* server already received.
Redeliver(i) ==
    /\ i \in 1..dispatched
    /\ \A req \in requests : req.action_ex_id # i
    /\ dispatched + redeliveries < MaxDeliveries
    /\ redeliveries' = redeliveries + 1
    /\ requests' = requests \cup
           {[action_ex_id |-> i, n |-> redeliveries + 1,
             params |-> action_input_collection[i]]}
    /\ UNCHANGED <<with_items_input, publish, phase, input_exc,
                   action_input_collection, dispatched, results, stored,
                   lock, wk, log, incomplete>>
    /\ UNCHANGED serverVars

\* rpc_ctx.redelivered as the RPC layer sets it for a delivery.
CtxRedelivered(req) == IF req.n = 0 THEN {PyFalse, None} ELSE {PyTrue}

\* executor.run_action(...): the executor runs the action and hands back a result.
executor_run_action(action_ex_id, params, redelivered, raw) ==
    [action_ex_id |-> action_ex_id, redelivered |-> redelivered, raw |-> raw]

\* Faulty variant of RedeliveredFlag: the context's flag is passed on as it is.
RedeliveredFlagRaw(rpc_ctx_redelivered) == rpc_ctx_redelivered

\* redelivered = rpc_ctx.redelivered or False
RedeliveredFlag(rpc_ctx_redelivered) == Or(rpc_ctx_redelivered, PyFalse)

\* ExecutorServer.run_action(rpc_ctx, action_ex_id, ...)
run_action(req, rpc_ctx_redelivered, raw) ==
    /\ req \in requests
    /\ requests' = requests \ {req}
    /\ results' = results \cup
           {[n |-> req.n,
             result |-> executor_run_action(req.action_ex_id, req.params,
                                            RedeliveredFlag(rpc_ctx_redelivered), raw)]}
    /\ UNCHANGED <<with_items_input, publish, phase, input_exc,
                   action_input_collection, dispatched, redeliveries, stored,
                   lock, wk, log, incomplete>>
    /\ UNCHANGED serverVars

\* What a worker holds after loading the persisted output and calling
\* get_output on it with result raw; an exception ends its transaction.
Handled(output, pub, raw) ==
    LET m == Materialize(<<>>, output)
        g == get_output(m.h, m.v, pub, raw)
    IN [pc |-> IF g.exc = "none" THEN "applied" ELSE "idle", raw |-> raw,
        exc |-> g.exc, heap0 |-> m.h, out0 |-> m.v,
        heap |-> g.h, out |-> g.out, ret |-> g.ret]

\* A worker takes a result, enters the task's critical section, loads
\* task_db.output and calls get_output.
Handle(w, r) ==
    /\ wk[w].pc = "idle"
    /\ lock = NoWorker
    /\ r \in results
    /\ results' = results \ {r}
    /\ wk' = [wk EXCEPT ![w] = Handled(stored, publish, r.result.raw)]
    /\ lock' = IF wk'[w].pc = "applied" THEN w ELSE lock
    /\ UNCHANGED <<with_items_input, publish, phase, input_exc,
                   action_input_collection, dispatched, requests,
                   redeliveries, stored, log, incomplete>>
    /\ UNCHANGED serverVars

\* task_db.output = <the returned output>, persisted; the critical section ends
\* and the engine consults is_iteration_incomplete on the updated output.
Store(w) ==
    /\ wk[w].pc = "applied"
    /\ stored' = Deep(wk[w].heap, wk[w].ret)
    /\ incomplete' = is_iteration_incomplete(with_items_input, stored', publish)
    /\ log' = Append(log, wk[w].raw)
    /\ lock' = NoWorker
    /\ wk' = [wk EXCEPT ![w] = IdleWorker]
    /\ UNCHANGED <<with_items_input, publish, phase, input_exc,
                   action_input_collection, dispatched, requests,
                   redeliveries, results>>
    /\ UNCHANGED serverVars

\* A consultation of is_iteration_incomplete before any result was accumulated.
Check ==
    /\ phase = "running"
    /\ log = <<>>
    /\ lock = NoWorker
    /\ incomplete = Unset
    /\ incomplete' = is_iteration_incomplete(with_items_input, stored, publish)
    /\ UNCHANGED <<with_items_input, publish, phase, input_exc,
                   action_input_collection, dispatched, requests,
                   redeliveries, results, stored, lock, wk, log>>
    /\ UNCHANGED serverVars

Next ==
    \/ CalcInput
    \/ Dispatch
    \/ \E i \in 1..MaxLen : Redeliver(i)
    \/ \E req \in requests :
          \E flag \in CtxRedelivered(req), raw \in Results(req.params) :
              run_action(req, flag, raw)
    \/ \E w \in Workers, r \in results : Handle(w, r)
    \/ \E w \in Workers : Store(w)
    \/ Check

Spec == Init /\ [][Next]_vars

\* A step that moves an iteration forward on the engine or executor side: its
\* request is sent, the executor server serves it, a worker stores the output.
Progress ==
    \/ Dispatch
    \/ \E req \in requests :
          \E flag \in CtxRedelivered(req), raw \in Results(req.params) :
              run_action(req, flag, raw)
    \/ \E w \in Workers : Store(w)

\* A result leaves the channel: in Spec only Handle removes one, and it can
\* whenever the critical section is free and a worker is idle.
TakeResult ==
    /\ lock = NoWorker
    /\ \E w \in Workers : wk[w].pc = "idle"
    /\ \E r \in results : results' = results \ {r}

\* The serialized task when iterations keep moving forward while one can: every
\* iteration eventually delivers its result and the result is accumulated.
FairSpec == Spec /\ WF_vars(Progress) /\ WF_results(TakeResult)

\* The same worker step without the critical section: the worker loads
\* task_db.output and calls get_output whoever else is between load and store.
HandleUnserialized(w, r) ==
    /\ wk[w].pc = "idle"
    /\ r \in results
    /\ results' = results \ {r}
    /\ wk' = [wk EXCEPT ![w] = Handled(stored, publish, r.result.raw)]
    /\ UNCHANGED <<with_items_input, publish, phase, input_exc,
                   action_input_collection, dispatched, requests,
                   redeliveries, stored, lock, log, incomplete>>
    /\ UNCHANGED serverVars

NextUnserialized ==
    \/ CalcInput
    \/ Dispatch
    \/ \E req \in requests :
          \E flag \in CtxRedelivered(req), raw \in Results(req.params) :
              run_action(req, flag, raw)
    \/ \E w \in Workers, r \in results : HandleUnserialized(w, r)
    \/ \E w \in Workers : Store(w)
    \/ Check

\* The task when applications of get_output are not serialized; every request
\* is delivered once.
SpecUnserialized == Init /\ [][NextUnserialized]_vars

\* ------------------------------------------------- the executor server
\* The server object itself, as the endpoint it registers.
Self == "self"

\* A new RPC server object, as rpc.get_rpc_server_driver()(cfg.CONF.executor)
\* gives it: no endpoint, not run, never asked to stop.
NewRpcServer == [endpoints |-> {}, running |-> FALSE, stops |-> <<>>]

\* Faulty variant of StartSteps: the notification is emitted before the RPC
\* server is run.
StartStepsNotifyFirst ==
    <<"service_start", "setup_profiler", "get_rpc_server", "register_endpoint",
      "notify_started", "run">>

\* The statements of ExecutorServer.start, in the order of the code.
StartSteps ==
    <<"service_start", "setup_profiler", "get_rpc_server", "register_endpoint",
      "run", "notify_started">>

\* No start() is between its first and its last statement.
NoStartInProgress == start_pc = 0

\* A caller enters ExecutorServer.start().
start ==
    /\ NoStartInProgress
    /\ calls < MaxCalls
    /\ calls' = calls + 1
    /\ start_pc' = 1
    /\ UNCHANGED <<setup_profiler, rpc_servers, rpc_server, service, stop_exc,
                   received, last_request, executor_calls, last_call, last_reply>>
    /\ UNCHANGED taskVars

\* The effect of one statement of start() on the RPC servers, on _rpc_server and
\* on what the service base class and the log saw.
StartEffect(step) ==
    CASE step = "service_start" ->
            /\ service' = [service EXCEPT !.starts = @ + 1]
            /\ UNCHANGED <<rpc_servers, rpc_server>>
      [] step = "setup_profiler" ->
            /\ service' = IF setup_profiler
                          THEN [service EXCEPT !.profiler = @ + 1]
                          ELSE service
            /\ UNCHANGED <<rpc_servers, rpc_server>>
      [] step = "get_rpc_server" ->
            /\ rpc_servers' = Append(rpc_servers, NewRpcServer)
            /\ rpc_server' = Len(rpc_servers) + 1
            /\ UNCHANGED service
      [] step = "register_endpoint" ->
            /\ rpc_servers' = [rpc_servers EXCEPT ![rpc_server].endpoints = @ \cup {Self}]
            /\ UNCHANGED <<rpc_server, service>>
      [] step = "run" ->
            /\ rpc_servers' = [rpc_servers EXCEPT ![rpc_server].running = TRUE]
            /\ UNCHANGED <<rpc_server, service>>
      [] step = "notify_started" ->
            /\ service' = [service EXCEPT !.notified = @ + 1]
            /\ UNCHANGED <<rpc_servers, rpc_server>>

\* The start() in progress executes its next statement.
start_step ==
    /\ start_pc \in 1..Len(StartSteps)
    /\ StartEffect(StartSteps[start_pc])
    /\ start_pc' = IF start_pc = Len(StartSteps) THEN 0 ELSE start_pc + 1
    /\ UNCHANGED <<setup_profiler, calls, stop_exc, received, last_request,
                   executor_calls, last_call, last_reply>>
    /\ UNCHANGED taskVars

\* Faulty variant of HasRpcServer: stop() does not look at _rpc_server.
HasRpcServerAlways(s) == TRUE

\* if self._rpc_server:
HasRpcServer(s) == s # NoRpcServer

\* ExecutorServer.stop(graceful), called while no start() is in progress.
stop(graceful) ==
    /\ NoStartInProgress
    /\ calls < MaxCalls
    /\ calls' = calls + 1
    /\ service' = [service EXCEPT !.stops = Append(@, graceful)]
    /\ IF HasRpcServer(rpc_server)
       THEN IF rpc_server = NoRpcServer
            THEN /\ stop_exc' = "AttributeError"
                 /\ UNCHANGED rpc_servers
            ELSE /\ stop_exc' = "none"
                 /\ rpc_servers' = [rpc_servers EXCEPT
                                       ![rpc_server].running = FALSE,
                                       ![rpc_server].stops = Append(@, graceful)]
       ELSE /\ stop_exc' = "none"
            /\ UNCHANGED rpc_servers
    /\ UNCHANGED <<setup_profiler, rpc_server, start_pc, received, last_request,
                   executor_calls, last_call, last_reply>>
    /\ UNCHANGED taskVars

\* The requests the RPC layer can hand to run_action; the context's redelivered
\* flag is True, False or None (not set).
RpcRequests ==
    [rpc_ctx : [redelivered : {PyTrue, PyFalse, None}],
     action_ex_id : {"a1", "a2"},
     action_cls_str : {"std.echo"},
     action_cls_attrs : {"attrs"},
     params : {"params"},
     safe_rerun : {PyTrue, PyFalse}]

\* How a call of executor.run_action can end: with a result, or with a fault.
ExecutorOutcomes ==
    {[exc |-> "none", value |-> r] : r \in {"result1", "result2"}}
    \cup {[exc |-> "fault", value |-> None]}

\* The RPC layer delivers to an endpoint registered on a server that is run.
Serving ==
    \E i \in DOMAIN rpc_servers :
        rpc_servers[i].running /\ Self \in rpc_servers[i].endpoints

\* ExecutorServer.run_action(rpc_ctx, action_ex_id, action_cls_str,
\* action_cls_attrs, params, safe_rerun), the executor ending the call with
\* outcome.
ExecutorServer_run_action(request, outcome) ==
    /\ Serving
    /\ received < MaxRpc
    /\ received' = received + 1
    /\ last_request' = request
    /\ executor_calls' = executor_calls + 1
    /\ last_call' = [action_ex_id |-> request.action_ex_id,
                     action_cls_str |-> request.action_cls_str,
                     action_cls_attrs |-> request.action_cls_attrs,
                     params |-> request.params,
                     safe_rerun |-> request.safe_rerun,
                     redelivered |-> RedeliveredFlag(request.rpc_ctx.redelivered),
                     outcome |-> outcome]
    /\ last_reply' = last_call'.outcome
    /\ UNCHANGED <<setup_profiler, rpc_servers, rpc_server, start_pc, service,
                   calls, stop_exc>>
    /\ UNCHANGED taskVars

\* One executor server, constructed with or without the profiler; the task is
\* left as created.
InitServer ==
    /\ with_items_input = EmptyMap
    /\ publish = EmptyCtx
    /\ phase = "created"
    /\ input_exc = "none"
    /\ action_input_collection = <<>>
    /\ dispatched = 0
    /\ requests = {}
    /\ redeliveries = 0
    /\ results = {}
    /\ stored = JNone
    /\ lock = NoWorker
    /\ wk = [w \in Workers |-> IdleWorker]
    /\ log = <<>>
    /\ incomplete = Unset
    /\ \E sp \in BOOLEAN : ExecutorServer_init(sp)

NextServer ==
    \/ start
    \/ start_step
    \/ \E graceful \in {PyTrue, PyFalse} : stop(graceful)
    \/ \E request \in RpcRequests, outcome \in ExecutorOutcomes :
          ExecutorServer_run_action(request, outcome)

\* The life of one executor server: start and stop calls one after the other,
\* RPC requests whenever a server is serving.
SpecServer == InitServer /\ [][NextServer]_vars

\* ------------------------------------------------------- reading the output
OutKey == get_output_key(publish)
HasPublish == OutKey # None

\* The iteration count L of the task.
IterationCount == Len(action_input_collection)

\* The primary sequence of a persisted output (empty when there is none).
PrimarySeq(j) ==
    IF j.kind = "dict" /\ OutKey \in DOMAIN j.map /\ j.map[OutKey].kind = "list"
    THEN j.map[OutKey].items
    ELSE <<>>

\* What a persisted output holds at task -> t_name (JNone when nothing).
TaskEntry(j) ==
    IF j.kind = "dict" /\ "task" \in DOMAIN j.map /\ j.map["task"].kind = "dict"
       /\ t_name \in DOMAIN j.map["task"].map
    THEN j.map["task"].map[t_name]
    ELSE JNone

\* The mirror sequence of a persisted output (empty when there is none).
MirrorSeq(j) ==
    IF HasPublish
    THEN PrimarySeq(TaskEntry(j))
    ELSE IF TaskEntry(j).kind = "list" THEN TaskEntry(j).items ELSE <<>>

\* The output a worker loaded, and the one get_output returned to it.
LoadedBy(w) == Deep(wk[w].heap0, wk[w].out0)
ReturnedTo(w) == Deep(wk[w].heap, wk[w].ret)

\* Results taken from the channel by a worker so far.
Taken == dispatched + redeliveries - Cardinality(requests) - Cardinality(results)

Last(s) == s[Len(s)]

\* ------------------------------------------------------------------ claims
\* C1: when every application of get_output for the task is serialized (Spec:
\* a worker loads, applies and stores inside the task's critical section), then
\* once N results have been taken and nobody is inside the critical section,
\* every tracked sequence has exactly N entries: no update is lost.
C1_NoLostUpdate ==
    lock = NoWorker =>
        /\ Len(MirrorSeq(stored)) = Taken
        /\ HasPublish => Len(PrimarySeq(stored)) = Taken

\* Two distinct iterations completed, nothing in flight, nothing redelivered.
C1_Witness ==
    /\ lock = NoWorker /\ requests = {} /\ results = {}
    /\ dispatched = 2 /\ redeliveries = 0 /\ Taken = 2
    /\ Len(MirrorSeq(stored)) = 2
    /\ log[1] # log[2]

\* C2: the length of every tracked sequence is at most the iteration count L,
\* also when a result is delivered a second time.
C2_LengthWithinIterations ==
    phase = "running" =>
        /\ Len(PrimarySeq(stored)) <= IterationCount
        /\ Len(MirrorSeq(stored)) <= IterationCount

\* C3: accumulation is append-only and arrival-ordered: what get_output returns
\* is the loaded sequence with one entry added at the end, and every change of
\* the persisted sequences adds one entry at the end for the one result applied.
C3_AppendOnly ==
    /\ [](\A w \in Workers : wk[w].pc = "applied" =>
            /\ MirrorSeq(ReturnedTo(w)) =
                   Append(MirrorSeq(LoadedBy(w)), Last(MirrorSeq(ReturnedTo(w))))
            /\ HasPublish =>
                   PrimarySeq(ReturnedTo(w)) =
                       Append(PrimarySeq(LoadedBy(w)), Last(PrimarySeq(ReturnedTo(w)))))
    /\ [][ \/ /\ MirrorSeq(stored') = MirrorSeq(stored)
              /\ PrimarySeq(stored') = PrimarySeq(stored)
              /\ log' = log
           \/ /\ Len(log') = Len(log) + 1
              /\ MirrorSeq(stored') # <<>>
              /\ MirrorSeq(stored') = Append(MirrorSeq(stored), Last(MirrorSeq(stored')))
              /\ HasPublish =>
                    PrimarySeq(stored') =
                        Append(PrimarySeq(stored), Last(PrimarySeq(stored')))
       ]_vars

\* A third entry was added behind two different ones.
C3_Witness ==
    /\ Len(MirrorSeq(stored)) = 3
    /\ MirrorSeq(stored)[1] # MirrorSeq(stored)[2]
    /\ Len(log) = 3

\* C4: get_output does not mutate the output the task held before the call:
\* the value reachable from the previous task_db.output is the same after it.
C4_PreviousOutputUnchanged ==
    \A w \in Workers :
        (wk[w].pc = "applied" /\ wk[w].out0.ref # 0) =>
            Deep(wk[w].heap, wk[w].out0) = Deep(wk[w].heap0, wk[w].out0)

\* C5: with a publish clause the entry appended is the projected value whenever
\* the projection has a value for the key (falsy values included), and the error
\* datum only when it has none.
C5_ProjectedValueAppended ==
    \A w \in Workers :
        (wk[w].pc = "applied" /\ HasPublish) =>
            Last(PrimarySeq(ReturnedTo(w))) =
                IF ~wk[w].raw.data.isNone /\ publish[OutKey] \in DOMAIN wk[w].raw.data.fields
                THEN wk[w].raw.data.fields[publish[OutKey]]
                ELSE wk[w].raw.error

C7_PlaceholdersOnly ==
    (~HasPublish /\ log # <<>>) =>
        stored = JDict([a \in {"task"} |->
                     JDict([b \in {t_name} |->
                         JList([j \in 1..Len(log) |-> log[j].error])])])

\* A success followed by an error, without publish clause.
C7_Witness ==
    /\ ~HasPublish
    /\ Len(log) = 2
    /\ log[1].error = None /\ log[2].error # None
    /\ MirrorSeq(stored) = <<None, log[2].error>>

\* C8: is_iteration_incomplete returns true exactly when count < L and false
\* when count = L, for every L >= 0 and count in 0..L, also for L = 0 and for
\* a task without any accumulated result: it returns a value and does not fail.
C8_IncompleteIffCountBelowL ==
    (incomplete # Unset /\ Len(MirrorSeq(stored)) <= IterationCount) =>
        /\ incomplete.exc = "none"
        /\ incomplete.value =
               IF Len(MirrorSeq(stored)) < IterationCount THEN PyTrue ELSE PyFalse

\* C9: a result with an error datum and no data never makes get_output raise:
\* the call returns and the error datum is the entry added, one more entry in
\* every tracked sequence, as for a success.
C9_ErrorRecordedNotRaised ==
    \A w \in Workers :
        /\ wk[w].exc = "none"
        /\ (wk[w].raw.error # None /\ wk[w].raw.data.isNone) =>
              /\ wk[w].pc = "applied"
              /\ MirrorSeq(ReturnedTo(w)) =
                     Append(MirrorSeq(LoadedBy(w)), wk[w].raw.error)
              /\ HasPublish =>
                     PrimarySeq(ReturnedTo(w)) =
                         Append(PrimarySeq(LoadedBy(w)), wk[w].raw.error)

\* An error result applied to an output that already holds an entry, with a
\* publish clause.
C9_Witness ==
    \E w \in Workers :
        /\ wk[w].pc = "applied"
        /\ HasPublish
        /\ wk[w].raw.error # None
        /\ Len(PrimarySeq(LoadedBy(w))) >= 1
        /\ Last(PrimarySeq(ReturnedTo(w))) = wk[w].raw.error

\* The mapping has a value that is not a sequence, or sequences of different
\* lengths.
ShapeError(m) ==
    \/ \E v \in DOMAIN m : ~m[v].islist
    \/ \E v1, v2 \in DOMAIN m : Len(m[v1].items) # Len(m[v2].items)

\* C10: validate_input fails only with InputException, exactly when some value
\* is not a sequence or the sequences differ in length; for every other
\* mapping, whatever its number of variables, it returns normally.
C10_OnlyInputException ==
    phase # "created" =>
        /\ input_exc = IF ShapeError(with_items_input) THEN "InputException" ELSE "none"
        /\ validate_input(with_items_input) = input_exc

\* C11: for a valid mapping of one or more variables to sequences of common
\* length L, calc_input returns exactly L bindings, binding i having exactly
\* the mapping's variables as keys and mapping each to the i-th element of its
\* sequence.
C11_IndexCorrespondence ==
    (phase # "created" /\ DOMAIN with_items_input # {}
        /\ ~ShapeError(with_items_input)) =>
        /\ phase = "running"
        /\ \A v \in DOMAIN with_items_input :
              /\ Len(action_input_collection) = Len(with_items_input[v].items)
              /\ \A i \in 1..Len(action_input_collection) :
                    /\ DOMAIN action_input_collection[i] = DOMAIN with_items_input
                    /\ action_input_collection[i][v] = with_items_input[v].items[i]

\* Two variables with two items each were expanded.
C11_Witness ==
    /\ phase = "running"
    /\ DOMAIN with_items_input = {"itemX", "itemY"}
    /\ Len(action_input_collection) = 2
    /\ action_input_collection[2] = [itemX |-> "2", itemY |-> "b"]

\* C12: validation precedes every dispatch: when validate_input fails,
\* calc_input yields no iteration input at all, and no iteration of the task is
\* ever dispatched or accumulated; a dispatched iteration implies a mapping that
\* passed validation.
C12_NoDispatchAfterFailedValidation ==
    /\ validate_input(with_items_input) # "none" =>
          /\ phase \in {"created", "failed"}
          /\ action_input_collection = <<>>
          /\ dispatched = 0 /\ requests = {} /\ results = {}
          /\ log = <<>> /\ stored \in {JNone, JEmptyDict}
          /\ \A w \in Workers : wk[w].pc = "idle"
    /\ phase = "failed" => input_exc = validate_input(with_items_input)
    /\ phase = "running" => validate_input(with_items_input) = "none"

\* Validation failed on sequences of different lengths, from which a partial
\* list could have been built.
C12_Witness ==
    /\ phase = "failed"
    /\ input_exc = "InputException"
    /\ DOMAIN with_items_input = {"itemX", "itemY"}
    /\ with_items_input["itemX"].islist /\ with_items_input["itemY"].islist
    /\ Len(with_items_input["itemX"].items) = 2
    /\ Len(with_items_input["itemY"].items) = 1

\* C13: when applications of get_output for the task are not serialized
\* (SpecUnserialized), an update can be lost.  Each call adds its entry to the
\* output its worker loaded, and a store persists exactly what that call
\* returned, whatever was stored in between: so the persisted sequence never
\* has more entries than results were taken, and the state of C13_Witness, two
\* results applied and one entry persisted, is reachable.
C13_StoreKeepsOwnSnapshot ==
    /\ [](Len(MirrorSeq(stored)) <= Taken)
    /\ [](\A w \in Workers : wk[w].pc = "applied" =>
            /\ MirrorSeq(ReturnedTo(w)) =
                   Append(MirrorSeq(LoadedBy(w)), Last(MirrorSeq(ReturnedTo(w))))
            /\ Len(log) >= Len(MirrorSeq(LoadedBy(w))))
    /\ [][\A w \in Workers :
            (wk[w].pc = "applied" /\ wk'[w].pc = "idle") =>
                /\ stored' = ReturnedTo(w)
                /\ Len(MirrorSeq(stored')) = Len(MirrorSeq(LoadedBy(w))) + 1
         ]_vars

\* Two iterations completed, both results were applied and stored, nothing was
\* redelivered, and the tracked sequence has one entry.
C13_Witness ==
    /\ \A w \in Workers : wk[w].pc = "idle"
    /\ requests = {} /\ results = {}
    /\ dispatched = 2 /\ redeliveries = 0 /\ Taken = 2 /\ Len(log) = 2
    /\ Len(MirrorSeq(stored)) = 1

\* C14: for a task with L >= 1 iterations whose results, successes or errors
\* in any arrival order, are each accumulated once under serialization,
\* is_iteration_incomplete consulted after each accumulation is true after each
\* of the first L-1 and false after the L-th; once it has returned false it
\* never returns true again (also when results are redelivered); and when every
\* iteration delivers its result (FairSpec) the task reaches the complete state.
C14_CompleteAfterLthResult ==
    /\ []((log # <<>> /\ redeliveries = 0) =>
            /\ incomplete.exc = "none"
            /\ incomplete.value =
                   IF Len(log) < IterationCount THEN PyTrue ELSE PyFalse)
    /\ [][incomplete.value = PyFalse => incomplete'.value = PyFalse]_vars
    /\ (phase = "running" /\ IterationCount >= 1) ~> (incomplete.value = PyFalse)

\* The second of two results, one a success and one an error, completed a task
\* that was incomplete after the first.
C14_Witness ==
    /\ IterationCount = 2 /\ redeliveries = 0
    /\ Len(log) = 2
    /\ log[1].error # log[2].error
    /\ incomplete.value = PyFalse

\* C15: after any non-empty sequence of get_output applications for task t
\* that started from an empty output, the top-level keys of the output are
\* exactly {'task'} without a publish clause and exactly {k, 'task'} with the
\* designated publish key k, and output['task'] has exactly one entry, the one
\* for t; hence the lookups of is_iteration_incomplete succeed once at least
\* one result has been accumulated.
C15_OutputShape ==
    log # <<>> =>
        /\ stored.kind = "dict"
        /\ DOMAIN stored.map = (IF HasPublish THEN {OutKey, "task"} ELSE {"task"})
        /\ stored.map["task"].kind = "dict"
        /\ DOMAIN stored.map["task"].map = {t_name}
        /\ incomplete.exc = "none"
        /\ is_iteration_incomplete(with_items_input, stored, publish).exc = "none"

\* Two results were accumulated under a publish clause and the output has the
\* two top-level keys.
C15_Witness ==
    /\ HasPublish
    /\ Len(log) = 2
    /\ stored.kind = "dict"
    /\ DOMAIN stored.map = {OutKey, "task"}
    /\ incomplete.exc = "none"

\* C16: ExecutorServer.run_action makes exactly one call to the executor's
\* run_action per RPC request; it passes action_ex_id, action_cls_str,
\* action_cls_attrs, params and safe_rerun unchanged and a redelivered flag that
\* is always a boolean, true exactly when the RPC context marks the request as
\* redelivered and false when the context's flag is false or absent; and it
\* gives back the executor's result unchanged.
C16_OneCallSameArguments ==
    /\ executor_calls = received
    /\ received > 0 =>
          /\ last_call.action_ex_id = last_request.action_ex_id
          /\ last_call.action_cls_str = last_request.action_cls_str
          /\ last_call.action_cls_attrs = last_request.action_cls_attrs
          /\ last_call.params = last_request.params
          /\ last_call.safe_rerun = last_request.safe_rerun
          /\ last_call.redelivered \in {PyTrue, PyFalse}
          /\ last_call.redelivered = PyTrue <=>
                 last_request.rpc_ctx.redelivered = PyTrue
          /\ last_reply = last_call.outcome

\* A request whose context has no redelivered flag was served and the executor
\* returned a result for it.
C16_Witness ==
    /\ received > 0
    /\ last_request.rpc_ctx.redelivered = None
    /\ last_call.redelivered = PyFalse
    /\ last_reply.exc = "none"

\* C17: in ExecutorServer.start the server registers itself as the RPC endpoint
\* before the RPC server is run, and the 'Executor server started.'
\* notification is emitted only after the RPC server has been run: it is never
\* emitted while the RPC server is not yet created, registered and running.
C17_StartedAfterRun ==
    [][/\ \A i \in DOMAIN rpc_servers :
             (~rpc_servers[i].running /\ rpc_servers'[i].running) =>
                 Self \in rpc_servers[i].endpoints
       /\ service'.notified # service.notified =>
             /\ rpc_server # NoRpcServer
             /\ Self \in rpc_servers[rpc_server].endpoints
             /\ rpc_servers[rpc_server].running]_vars

\* A start() ran to its end: the notification was emitted and the RPC server is
\* registered and running.
C17_Witness ==
    /\ service.notified = 1
    /\ NoStartInProgress
    /\ rpc_server # NoRpcServer
    /\ rpc_servers[rpc_server].running
    /\ Self \in rpc_servers[rpc_server].endpoints

\* C18: for any sequence of start and stop calls, stop asks the RPC server to
\* stop only if a previous start created it, and forwards the graceful flag it
\* was given; a stop before any start touches no RPC server and ends without
\* error.
C18_StopOnlyCreatedServer ==
    /\ [](rpc_server # NoRpcServer => service.starts >= 1)
    /\ [](\A i \in DOMAIN rpc_servers :
             rpc_servers[i].stops # <<>> => service.starts >= 1)
    /\ [][service'.stops # service.stops =>
            /\ stop_exc' = "none"
            /\ IF rpc_server = NoRpcServer
               THEN rpc_servers' = rpc_servers
               ELSE /\ \A i \in DOMAIN rpc_servers :
                          i # rpc_server => rpc_servers'[i] = rpc_servers[i]
                    /\ rpc_servers'[rpc_server].stops =
                           Append(rpc_servers[rpc_server].stops,
                                  Last(service'.stops))]_vars

\* A stop before any start was followed by a start and a graceful stop, which
\* reached the RPC server that start created.
C18_Witness ==
    /\ Len(service.stops) = 2
    /\ service.starts = 1
    /\ rpc_servers # <<>>
    /\ rpc_servers[1].stops = <<PyTrue>>
    /\ stop_exc = "none"

====
